---- MODULE Spec2Model ----
(***************************************************************************)
(* Model of src/src/execution/local_manager.py: LocalManager.execute and   *)
(* the three steps it calls (_clean_target_on_host, _run_build,            *)
(* _extract_artifacts), over an abstract host filesystem.                  *)
(*                                                                         *)
(* Paths are sequences of components (os.path.join is concatenation).      *)
(* A directory tree is a record [exists, files].  A value of the           *)
(* environment is a sequence of paths, so that PATH is the list of its     *)
(* entries and os.pathsep.join / "+ os.pathsep +" are concatenations.      *)
(***************************************************************************)
EXTENDS Integers, Sequences, FiniteSets, TLC

VARIABLES
    pc,           \* where the (single, synchronous) caller is in execute
    calls,        \* how many times execute has been entered
    env_config,   \* self.env_config: [build_tool, jdk_version]
    output_path,  \* argument of execute
    fs,           \* the host filesystem parts the manager reads and writes
    hostEnv,      \* os.environ of the host process
    env,          \* _run_build local: env
    java_home,    \* _run_build local: java_home
    path_elements,\* _run_build local: path_elements
    cmd,          \* _run_build local: cmd
    bin_path,     \* _run_build local: gradle_bin_path / mvn_bin_path
    exit_code,    \* execute local: exit_code, <<>> until _run_build has returned
    logs,         \* execute local: logs
    exc,          \* the exception on its way to the handler of execute
    result,       \* the pair execute returned
    child,        \* what subprocess.run was given and what it reported
    trace,        \* the steps of the current call, in the order they ran
    destAtCall    \* <destination>/classes as it was when execute was entered

vars == <<pc, calls, env_config, output_path, fs, hostEnv, env, java_home, path_elements,
          cmd, bin_path, exit_code, logs, exc, result, child, trace, destAtCall>>

----------------------------------------------------------------------------
(* Bounds of the model *)

\* execute is entered at most MaxCalls times on one workspace
MaxCalls == 2

\* the class files a tree can hold
Files == {"A.class", "B.class"}

----------------------------------------------------------------------------
(* Directory trees *)

NoDir == [exists |-> FALSE, files |-> {}]

Dir(S) == [exists |-> TRUE, files |-> S]

Trees == {Dir(S) : S \in SUBSET Files}

----------------------------------------------------------------------------
(* os.path *)

Join(a, b) == a \o b

Dirname(p) == SubSeq(p, 1, Len(p) - 1)

Basename(p) == p[Len(p)]

----------------------------------------------------------------------------
(* LocalManager.__init__ *)

workspace_path == <<"ws">>

build_relative_path == <<"sub">>

tmp_root == <<"/data2/donggyu/benchmark/sec_code/tmp">>

jdk8_home == Join(tmp_root, <<"jdks", "temurin8">>)

jdk17_home == Join(tmp_root, <<"jdks", "temurin17">>)

maven_home == Join(tmp_root, <<"maven">>)

gradle_home == Join(tmp_root, <<"gradle">>)

----------------------------------------------------------------------------
(* Python values of env_config["jdk_version"] and their str() *)

PyInt(k) == [t |-> "int", n |-> k, s |-> <<>>]

PyStr(chars) == [t |-> "str", n |-> 0, s |-> chars]

Absent == [t |-> "absent", n |-> 0, s |-> <<>>]

DigitChar == <<"0", "1", "2", "3", "4", "5", "6", "7", "8", "9">>

RECURSIVE Digits(_)
Digits(k) == IF k < 10 THEN <<DigitChar[k + 1]>>
             ELSE Digits(k \div 10) \o <<DigitChar[(k % 10) + 1]>>

\* str(jdk_version): decimal digits of an int, the text itself of a str
Str(v) == IF v.t = "int" THEN Digits(v.n) ELSE v.s

JdkVersions == {Absent, PyInt(17), PyInt(8), PyStr(<<"1", "7">>), PyStr(<<"1", "7", ".", "0">>),
                PyStr(<<>>)}

NoTool == "<absent>"

BuildTools == {NoTool, "maven", "gradle", "ant"}

\* env_config.get("build_tool", "maven")
GetBuildTool(cfg) == IF cfg.build_tool = NoTool THEN "maven" ELSE cfg.build_tool

\* env_config.get("jdk_version", 8)
GetJdkVersion(cfg) == IF cfg.jdk_version = Absent THEN PyInt(8) ELSE cfg.jdk_version

\* Python None and the empty string are falsy (`if output_path:`)
None == "None"

OutputPaths == {None, "", "/out"}

Truthy(p) == p \notin {None, ""}

----------------------------------------------------------------------------
(* Process environments *)

EnvVars == {"JAVA_HOME", "PATH", "LANG"}

Unset == [set |-> FALSE, val |-> <<>>]

Val(v) == [set |-> TRUE, val |-> v]

NoEnv == [x \in EnvVars |-> Unset]

\* the empty string, as a list of search-path entries
EmptyStr == << <<>> >>

\* a host with JAVA_HOME and PATH set, and one with neither
HostEnv1 == [x \in EnvVars |-> CASE x = "JAVA_HOME" -> Val(<< <<"opt", "java">> >>)
                                 [] x = "PATH" -> Val(<< <<"usr", "bin">>, <<"bin">> >>)
                                 [] OTHER -> Val(<< <<"C">> >>)]

HostEnv2 == [x \in EnvVars |-> CASE x = "LANG" -> Val(<< <<"C">> >>)
                                 [] OTHER -> Unset]

HostEnvs == {HostEnv1, HostEnv2}

\* env.get(name, "")
EnvGet(e, name) == IF e[name].set THEN e[name].val ELSE EmptyStr

\* `jdk_version == 17` in place of `str(jdk_version) == "17"`
JavaHomeFor_IntOnly(jdk_version) == IF jdk_version = PyInt(17) THEN jdk17_home ELSE jdk8_home

\* lines 89-92
JavaHomeFor(jdk_version) == IF Str(jdk_version) = <<"1", "7">> THEN jdk17_home ELSE jdk8_home

\* the search path built together with JAVA_HOME, before the binary is resolved
ComposeEarly_WithPath(host, jh) ==
    [env |-> [host EXCEPT !["JAVA_HOME"] = Val(<<jh>>),
                          !["PATH"] = Val(<<Join(jh, <<"bin">>)>> \o EnvGet(host, "PATH"))],
     host |-> host]

\* lines 86-98: env = os.environ.copy(); env["JAVA_HOME"] = java_home.
\* The result names both mappings, the copy and os.environ itself.
ComposeEarly(host, jh) ==
    [env |-> [host EXCEPT !["JAVA_HOME"] = Val(<<jh>>)], host |-> host]

\* line 164
FinalizePath(e, elems) == [e EXCEPT !["PATH"] = Val(elems \o EnvGet(e, "PATH"))]

----------------------------------------------------------------------------
(* Tool installations: the files below an install root, as relative paths *)

Installs(name) == { {<<"bin", name>>},
                    {<<"dist", "pkg", "bin", name>>},
                    {<<"a", "bin", name>>, <<"b", "bin", name>>},
                    {<<"lib", name>>},
                    {} }

\* lines 105-106 / 129-130
Canonical(home, name) == Join(home, <<"bin", name>>)

\* lines 109-113 / 133-137: the files os.walk can report first
WalkMatches(home, name, files) ==
    { Join(home, f) : f \in { g \in files : /\ Basename(g) = name
                                          /\ Basename(Dirname(Join(home, g))) = "bin" } }

\* the paths resolution can end with; empty when the binary is not found
Resolve(home, name, files) ==
    IF <<"bin", name>> \in files THEN {Canonical(home, name)}
    ELSE WalkMatches(home, name, files)

----------------------------------------------------------------------------
(* The host filesystem *)

\* target, build: <root>/<subpath>/target and /build exist
\* targetClasses: target/classes; buildJavaMain: build/classes/java/main;
\* buildMain: build/classes/main; dest: <destination>/classes;
\* initGradle: <root>/init.gradle exists
EmptyFs == [target |-> FALSE, targetClasses |-> NoDir,
            build |-> FALSE, buildJavaMain |-> NoDir, buildMain |-> NoDir,
            dest |-> NoDir, initGradle |-> FALSE]

\* shutil.rmtree(<root>/<subpath>/target): everything gone, or a failure that
\* leaves the directory with or without its classes
RmtreeTarget(f) ==
    { [fs |-> [f EXCEPT !.target = FALSE, !.targetClasses = NoDir], ok |-> TRUE],
      [fs |-> f, ok |-> FALSE],
      [fs |-> [f EXCEPT !.targetClasses = NoDir], ok |-> FALSE] }

\* shutil.rmtree(<root>/<subpath>/build)
RmtreeBuild(f) ==
    { [fs |-> [f EXCEPT !.build = FALSE, !.buildJavaMain = NoDir, !.buildMain = NoDir],
       ok |-> TRUE],
      [fs |-> f, ok |-> FALSE],
      [fs |-> [f EXCEPT !.buildJavaMain = NoDir], ok |-> FALSE],
      [fs |-> [f EXCEPT !.buildMain = NoDir], ok |-> FALSE] }

\* lines 66-72, one iteration each: rmtree only if the directory exists, a
\* failure is logged and swallowed
CleanTarget(f) == IF f.target THEN {r.fs : r \in RmtreeTarget(f)} ELSE {f}

CleanBuild(f) == IF f.build THEN {r.fs : r \in RmtreeBuild(f)} ELSE {f}

\* lines 59-72: target first, then build
CleanOutcomes(f) == UNION { CleanBuild(g) : g \in CleanTarget(f) }

\* what the build tool can leave in the workspace: a class tree written to
\* any of the three output locations, the others left as they were
ChildWrites(f) ==
    { [f EXCEPT !.target = f.target \/ w[1],
                !.targetClasses = IF w[1] THEN t ELSE f.targetClasses,
                !.build = f.build \/ w[2] \/ w[3],
                !.buildJavaMain = IF w[2] THEN t ELSE f.buildJavaMain,
                !.buildMain = IF w[3] THEN t ELSE f.buildMain]
      : w \in BOOLEAN \X BOOLEAN \X BOOLEAN, t \in Trees }

\* the exit statuses subprocess.run can report for a child that ran
ChildExitCodes == {-1, 0, 1}

----------------------------------------------------------------------------
(* _extract_artifacts *)

\* the Gradle tree probed before the Maven tree
ChooseSource_GradleFirst(f) ==
    IF f.buildJavaMain.exists THEN [found |-> TRUE, from |-> "build/classes/java/main", tree |-> f.buildJavaMain]
    ELSE IF f.targetClasses.exists THEN [found |-> TRUE, from |-> "target/classes", tree |-> f.targetClasses]
    ELSE IF f.buildMain.exists THEN [found |-> TRUE, from |-> "build/classes/main", tree |-> f.buildMain]
    ELSE [found |-> FALSE, from |-> "", tree |-> NoDir]

\* lines 200-211
ChooseSource(f) ==
    IF f.targetClasses.exists THEN [found |-> TRUE, from |-> "target/classes", tree |-> f.targetClasses]
    ELSE IF f.buildJavaMain.exists THEN [found |-> TRUE, from |-> "build/classes/java/main", tree |-> f.buildJavaMain]
    ELSE IF f.buildMain.exists THEN [found |-> TRUE, from |-> "build/classes/main", tree |-> f.buildMain]
    ELSE [found |-> FALSE, from |-> "", tree |-> NoDir]

\* a copy into the existing directory, without the rmtree
ReplaceDest_Merge(src, old) == Dir(src.files \cup old.files)

\* lines 219-223 when rmtree and copytree both succeed: old is what
\* <destination>/classes was, src the chosen source tree
ReplaceDest(src, old) == Dir(src.files)

\* line 223, failure part way: nothing, or some of the source
CopyTreeFailed(src) == {NoDir} \cup {Dir(S) : S \in (SUBSET src.files) \ {src.files}}

\* line 220, failure part way: the directory is still there
RmtreeDestFailed(dst) == {Dir(S) : S \in SUBSET dst.files}

----------------------------------------------------------------------------
(* _run_build, as a function from its inputs to the frames it can end with.   *)
(* A frame holds the locals, the filesystem and os.environ as the function   *)
(* left them, the steps taken, and how it ended: ret = <<code>> after a      *)
(* return, exc set after a raise.                                             *)

NoCode == <<>>

NoExc == ""

NoChild == [launched |-> FALSE, cmd |-> <<>>, env |-> NoEnv, returncode |-> 0]

Word(w) == <<w>>

init_gradle_dst == Join(workspace_path, <<"init.gradle">>)

settings_xml == Join(workspace_path, <<"settings.xml">>)

\* `else:` in place of `elif build_tool == "maven":`
IsMaven_Else(build_tool) == build_tool # "gradle"

\* line 128
IsMaven(build_tool) == build_tool = "maven"

\* lines 80-101
RunEntry(cfg, host, f, tr) ==
    LET jh == JavaHomeFor(GetJdkVersion(cfg))
        c == ComposeEarly(host, jh)
    IN [env |-> c.env, host |-> c.host, java_home |-> jh,
        path_elements |-> <<Join(jh, <<"bin">>)>>, cmd |-> <<>>, bin_path |-> <<>>,
        fs |-> f, trace |-> Append(tr, "env"), child |-> NoChild,
        ret |-> NoCode, logs |-> <<>>, exc |-> NoExc]

Returned(s, code, text) == [s EXCEPT !.ret = <<code>>, !.logs = text]

Raised(s, e) == [s EXCEPT !.exc = e]

Running(s) == s.ret = NoCode /\ s.exc = NoExc

\* lines 105-115 / 129-139 for the install root `home` holding `files`
ResolveIn(s, home, name, label, files) ==
    LET t == [s EXCEPT !.trace = Append(@, "resolve")]
    IN IF Resolve(home, name, files) = {}
       THEN {Returned(t, -1, <<label \o " binary not found in ">> \o home)}
       ELSE {[t EXCEPT !.bin_path = b] : b \in Resolve(home, name, files)}

\* lines 103-115, 128-139, 160-161: the branch on build_tool, up to the path
\* of the binary
ResolveStep(s, build_tool) ==
    IF build_tool = "gradle"
    THEN UNION {ResolveIn(s, gradle_home, "gradle", "Gradle", files) : files \in Installs("gradle")}
    ELSE IF IsMaven(build_tool)
    THEN UNION {ResolveIn(s, maven_home, "mvn", "Maven", files) : files \in Installs("mvn")}
    ELSE {Returned(s, -1, <<"Unknown build tool: ", build_tool>>)}

\* line 117
GradleCmd(bin) == <<bin, Word("compileJava"), Word("-x"), Word("test"), Word("--stacktrace"),
                    Word("--info")>>

\* lines 141-156
MavenCmd(bin, distribution, settings) ==
    <<bin, Word("package"), Word("-DskipTests"), Word("-T"), Word("1C")>>
    \o (IF distribution THEN <<Word("-pl"), Word("!distribution")>> ELSE <<>>)
    \o <<Word("-Dskip.npm=true"), Word("-Dskip.node=true"), Word("-Dskip.installnodenpm=true")>>
    \o (IF settings THEN <<Word("-s"), settings_xml>> ELSE <<>>)

\* lines 126 / 158
WithToolDir(s) == [s EXCEPT !.path_elements = Append(@, Dirname(s.bin_path))]

\* lines 117-126 (gradle): no template; template copied into the workspace
\* root; shutil.copy raises (line 123 is outside the try)
GradleCommand(s) ==
    LET t == [s EXCEPT !.trace = Append(@, "cmd"), !.cmd = GradleCmd(s.bin_path)]
    IN { WithToolDir(t),
         WithToolDir([t EXCEPT !.fs.initGradle = TRUE,
                               !.trace = Append(@, "copy init.gradle"),
                               !.cmd = @ \o <<Word("--init-script"), init_gradle_dst>>]),
         Raised(t, "copy of init.gradle failed") }

\* lines 141-158 (maven)
MavenCommand(s) ==
    { WithToolDir([s EXCEPT !.trace = Append(@, "cmd"),
                            !.cmd = MavenCmd(s.bin_path, distribution, settings)])
      : distribution \in BOOLEAN, settings \in BOOLEAN }

CommandStep(s, build_tool) ==
    IF build_tool = "gradle" THEN GradleCommand(s) ELSE MavenCommand(s)

\* lines 163-191: the search path, then inside the try: os.chmod raises;
\* subprocess.run raises; the child runs and exits with `code`.  What the
\* child writes meanwhile is ChildWrites, applied where the frame is used.
LaunchStep(s) ==
    LET t == [s EXCEPT !.env = FinalizePath(s.env, s.path_elements),
                       !.trace = Append(@, "path")]
        u == [t EXCEPT !.trace = Append(@, "chmod")]
    IN { Returned(t, -1, <<"chmod failed">>),
         Returned(u, -1, <<"launch failed">>) }
       \cup
       { Returned([u EXCEPT !.trace = Append(@, "launch"),
                            !.child = [launched |-> TRUE, cmd |-> t.cmd, env |-> t.env,
                                       returncode |-> code]],
                  code, <<"stdout", "\n", "stderr">>)
         : code \in ChildExitCodes }

\* the filesystem after a frame: the manager's own writes, and the child's
\* if there was a child
FsAfter(o) == IF o.child.launched THEN ChildWrites(o.fs) ELSE {o.fs}

\* lines 74-191
RunBuildOutcomes(cfg, host, f, tr) ==
    LET build_tool == GetBuildTool(cfg)
        R == ResolveStep(RunEntry(cfg, host, f, tr), build_tool)
        C == UNION {CommandStep(s, build_tool) : s \in {r \in R : Running(r)}}
        L == UNION {LaunchStep(s) : s \in {c \in C : Running(c)}}
    IN {r \in R : ~Running(r)} \cup {c \in C : ~Running(c)} \cup L

----------------------------------------------------------------------------
(* execute *)

NoResult == [returned |-> FALSE, success |-> FALSE, logs |-> <<>>]

NoConfig == [build_tool |-> NoTool, jdk_version |-> Absent]

Configs == [build_tool : BuildTools, jdk_version : JdkVersions]

\* The JDK version and os.environ reach nothing but the environment that
\* _run_build composes, which SpecRun explores over all of Configs and
\* HostEnvs; the calls of execute take the version from the smaller set
\* and run in the first host environment.
CallConfigs == [build_tool : BuildTools, jdk_version : {Absent, PyInt(17)}]

\* execute without line 44
FirstStep_NoClean == "run"

\* line 44 is the first statement of the try block
FirstStep == "clean"

\* extraction whenever a destination was given, whatever the exit code
ShouldExtract_AnyCode(code, out) == Truthy(out)

\* lines 48-49
ShouldExtract(code, out) == code = <<0>> /\ Truthy(out)

\* a handler that logs and re-raises
ExceptResult_Reraise(e) == [returned |-> FALSE, success |-> FALSE, logs |-> <<e>>]

\* lines 55-57
ExceptResult(e) == [returned |-> TRUE, success |-> FALSE, logs |-> <<e>>]

\* what execute can still see of the child once _run_build has returned
Seen(c) == [c EXCEPT !.cmd = <<>>, !.env = NoEnv]

Init ==
    /\ pc = "idle"
    /\ calls = 0
    /\ env_config = NoConfig
    /\ output_path = None
    /\ fs = EmptyFs
    /\ hostEnv = HostEnv1
    /\ env = NoEnv
    /\ java_home = <<>>
    /\ path_elements = <<>>
    /\ cmd = <<>>
    /\ bin_path = <<>>
    /\ exit_code = NoCode
    /\ logs = <<>>
    /\ exc = NoExc
    /\ result = NoResult
    /\ child = NoChild
    /\ trace = <<>>
    /\ destAtCall = NoDir

frame == <<env, java_home, path_elements, cmd, bin_path>>

\* a manager holding cfg enters execute(out) (line 42)
Call(cfg, out) ==
    /\ pc = "idle"
    /\ calls < MaxCalls
    /\ calls' = calls + 1
    /\ pc' = FirstStep
    /\ env_config' = cfg
    /\ output_path' = out
    /\ logs' = <<>>
    /\ destAtCall' = fs.dest
    /\ UNCHANGED <<fs, hostEnv, frame, exit_code, exc, result, child, trace>>

\* lines 59-72
CleanTargetOnHost ==
    /\ pc = "clean"
    /\ fs' \in CleanOutcomes(fs)
    /\ trace' = Append(trace, "clean")
    /\ pc' = "run"
    /\ UNCHANGED <<calls, env_config, output_path, hostEnv, frame, exit_code, logs, exc,
                   result, child, destAtCall>>

\* what execute has of a frame of _run_build once the function is over
AsSeen(o) == [fs |-> o.fs, host |-> o.host, trace |-> o.trace, child |-> Seen(o.child),
              ret |-> o.ret, logs |-> o.logs, exc |-> o.exc]

\* line 45: _run_build runs to its end; its locals are gone when execute
\* resumes with the returned pair (lines 45-46) or with the exception
RunBuild ==
    /\ pc = "run"
    /\ \E o \in {AsSeen(r) : r \in RunBuildOutcomes(env_config, hostEnv, fs, trace)} :
         /\ fs' \in FsAfter(o)
         /\ hostEnv' = o.host
         /\ trace' = o.trace
         /\ child' = o.child
         /\ IF o.exc # NoExc
            THEN /\ exc' = o.exc
                 /\ pc' = "except"
                 /\ UNCHANGED <<exit_code, logs>>
            ELSE /\ exit_code' = o.ret
                 /\ logs' = o.logs
                 /\ pc' = "decide"
                 /\ UNCHANGED exc
    /\ UNCHANGED <<calls, env_config, output_path, frame, result, destAtCall>>

\* lines 48-53
Decide ==
    /\ pc = "decide"
    /\ IF ShouldExtract(exit_code, output_path)
       THEN /\ pc' = "extract"
            /\ UNCHANGED result
       ELSE /\ result' = [returned |-> TRUE, success |-> (exit_code = <<0>>), logs |-> logs]
            /\ pc' = "done"
    /\ UNCHANGED <<calls, env_config, output_path, fs, hostEnv, frame, exit_code, logs, exc,
                   child, trace, destAtCall>>

\* lines 193-226, then line 51
ExtractArtifacts ==
    /\ pc = "extract"
    /\ LET src == ChooseSource(fs)
       IN IF ~src.found
          THEN /\ trace' = Append(trace, "extract")
               /\ result' = [returned |-> TRUE, success |-> TRUE, logs |-> logs]
               /\ pc' = "done"
               /\ UNCHANGED <<fs, exc>>
          ELSE \/ /\ fs.dest.exists     \* shutil.rmtree raises (line 220 is outside the try)
                  /\ fs' \in {[fs EXCEPT !.dest = d] : d \in RmtreeDestFailed(fs.dest)}
                  /\ trace' = trace \o <<"extract", "rmtree failed">>
                  /\ exc' = "rmtree of classes failed"
                  /\ pc' = "except"
                  /\ UNCHANGED result
               \/ /\ fs' = [fs EXCEPT !.dest = ReplaceDest(src.tree, fs.dest)]
                  /\ trace' = trace \o <<"extract", "copied">>
                  /\ result' = [returned |-> TRUE, success |-> TRUE, logs |-> logs]
                  /\ pc' = "done"
                  /\ UNCHANGED exc
               \/ /\ fs' \in {[fs EXCEPT !.dest = d] : d \in CopyTreeFailed(src.tree)}
                  /\ trace' = trace \o <<"extract", "copy failed">>
                  /\ result' = [returned |-> TRUE, success |-> TRUE, logs |-> logs]
                  /\ pc' = "done"
                  /\ UNCHANGED exc
    /\ UNCHANGED <<calls, env_config, output_path, hostEnv, frame, exit_code, logs, child,
                   destAtCall>>

\* lines 55-57
Except ==
    /\ pc = "except"
    /\ result' = ExceptResult(exc)
    /\ pc' = "done"
    /\ UNCHANGED <<calls, env_config, output_path, fs, hostEnv, frame, exit_code, logs, exc,
                   child, trace, destAtCall>>

\* the caller has the pair; everything request-scoped is discarded
Return ==
    /\ pc = "done"
    /\ pc' = "idle"
    /\ env_config' = NoConfig
    /\ output_path' = None
    /\ exit_code' = NoCode
    /\ logs' = <<>>
    /\ exc' = NoExc
    /\ result' = NoResult
    /\ child' = NoChild
    /\ trace' = <<>>
    /\ destAtCall' = NoDir
    /\ UNCHANGED <<calls, fs, hostEnv, frame>>

Next ==
    \/ \E cfg \in CallConfigs, out \in OutputPaths : Call(cfg, out)
    \/ CleanTargetOnHost
    \/ RunBuild
    \/ Decide
    \/ ExtractArtifacts
    \/ Except
    \/ Return

Spec == Init /\ [][Next]_vars

----------------------------------------------------------------------------
(* _run_build on its own, stopped at its return or raise with its frame *)

InitRun ==
    /\ pc = "run"
    /\ calls = 1
    /\ env_config \in Configs
    /\ output_path = None
    /\ fs = EmptyFs
    /\ hostEnv \in HostEnvs
    /\ env = NoEnv
    /\ java_home = <<>>
    /\ path_elements = <<>>
    /\ cmd = <<>>
    /\ bin_path = <<>>
    /\ exit_code = NoCode
    /\ logs = <<>>
    /\ exc = NoExc
    /\ result = NoResult
    /\ child = NoChild
    /\ trace = <<>>
    /\ destAtCall = NoDir

RunBuildFrame ==
    /\ pc = "run"
    /\ \E o \in RunBuildOutcomes(env_config, hostEnv, fs, trace) :
         /\ fs' \in FsAfter(o)
         /\ hostEnv' = o.host
         /\ trace' = o.trace
         /\ child' = o.child
         /\ env' = o.env
         /\ java_home' = o.java_home
         /\ path_elements' = o.path_elements
         /\ cmd' = o.cmd
         /\ bin_path' = o.bin_path
         /\ exit_code' = o.ret
         /\ logs' = o.logs
         /\ exc' = o.exc
         /\ pc' = IF o.exc # NoExc THEN "raised" ELSE "returned"
    /\ UNCHANGED <<calls, env_config, output_path, result, destAtCall>>

NextRun == RunBuildFrame

SpecRun == InitRun /\ [][NextRun]_vars

----------------------------------------------------------------------------

TypeOK ==
    /\ pc \in {"idle", "clean", "run", "decide", "extract", "except", "done", "returned",
               "raised"}
    /\ fs.targetClasses.exists => fs.target
    /\ (fs.buildJavaMain.exists \/ fs.buildMain.exists) => fs.build

----------------------------------------------------------------------------
(* Properties *)

Has(tr, e) == \E i \in 1..Len(tr) : tr[i] = e

Pos(tr, e) == CHOOSE i \in 1..Len(tr) : tr[i] = e

Last(tr) == tr[Len(tr)]

Ended(tr, e) == Len(tr) > 0 /\ Last(tr) = e

Precedes(tr, a, b) == Has(tr, b) => (Has(tr, a) /\ Pos(tr, a) < Pos(tr, b))

Unknown(cfg) == GetBuildTool(cfg) \notin {"maven", "gradle"}

UnknownMessage(cfg) == <<"Unknown build tool: ", GetBuildTool(cfg)>>

RunEvents == {"env", "resolve", "cmd", "copy init.gradle", "path", "chmod", "launch"}

ExtractEvents == {"extract", "rmtree failed", "copied", "copy failed"}

\* C1: when execute has returned and the run step had returned an exit code,
\* the success flag is (exit code = 0), whatever cleaning and extraction did.
C1_VerdictIsExitCode ==
    (pc = "done" /\ exit_code # NoCode) => (result.success = (exit_code = <<0>>))

\* C2: <destination>/classes is deleted, created or changed, and extraction
\* is entered, only in a call whose run step returned exit code 0 and that
\* was given a destination.
C2_ExtractOnlyAfterZeroWithDestination ==
    [][ (fs'.dest # fs.dest \/ (Has(trace', "extract") /\ ~Has(trace, "extract")))
        => (exit_code = <<0>> /\ output_path # None /\ Truthy(output_path)) ]_vars

C2_Witness ==
    /\ pc = "done"
    /\ Ended(trace, "copied")
    /\ exit_code = <<0>>
    /\ output_path = "/out"
    /\ fs.dest # destAtCall

\* C3: the run step returns -1 exactly when no child was launched (tool not
\* found, unknown backend, launch failure); a launched child's exit code is
\* returned verbatim and is never -1.
C3_MinusOneIffNoChild ==
    pc = "decide" =>
        /\ (exit_code = <<-1>>) <=> ~child.launched
        /\ child.launched => exit_code = <<child.returncode>>

\* C4: in every call the clean is the first step, for every configuration;
\* the run step's steps all come after it and before any step of the
\* extraction.
C4_CleanThenRunThenExtract ==
    /\ pc \notin {"idle", "clean"} => (Len(trace) >= 1 /\ trace[1] = "clean")
    /\ \A i \in 1..Len(trace) : trace[i] = "clean" => i = 1
    /\ \A i, j \in 1..Len(trace) :
         (trace[i] \in ExtractEvents /\ trace[j] \in RunEvents) => j < i
    /\ Has(trace, "launch") => Pos(trace, "clean") < Pos(trace, "launch")

C4_Witness ==
    /\ pc = "done"
    /\ trace = <<"clean", "env", "resolve", "cmd", "path", "chmod", "launch", "extract", "copied">>

C4_WitnessUnknown ==
    /\ pc = "done"
    /\ Unknown(env_config)
    /\ trace = <<"clean", "env">>

ResolutionFailed == Has(trace, "resolve") /\ bin_path = <<>>

\* C5 as stated: the binary is resolved before any of the environment is
\* composed, and nothing of the environment is composed when resolution fails.
C5_ResolveBeforeEnvironment ==
    pc \in {"returned", "raised"} =>
        /\ Has(trace, "resolve") => Pos(trace, "resolve") < Pos(trace, "env")
        /\ ResolutionFailed => env = NoEnv

\* C5 amended: the environment copy with JAVA_HOME comes first; the binary is
\* resolved before the command line and before the search path are built;
\* when resolution fails JAVA_HOME is set in the copy, and neither a search
\* path nor a command line has been built.
C5_ResolveBeforeCommandAndPath ==
    pc \in {"returned", "raised"} =>
        /\ Precedes(trace, "env", "resolve")
        /\ Precedes(trace, "resolve", "cmd")
        /\ Precedes(trace, "resolve", "path")
        /\ Has(trace, "resolve") => env["JAVA_HOME"] = Val(<<java_home>>)
        /\ ResolutionFailed =>
             /\ env["PATH"] = hostEnv["PATH"]
             /\ cmd = <<>>
             /\ ~Has(trace, "cmd") /\ ~Has(trace, "path")
        /\ cmd # <<>> => (bin_path # <<>> /\ cmd[1] = bin_path)

C5_Witness ==
    /\ pc = "returned"
    /\ ResolutionFailed
    /\ exit_code = <<-1>>
    /\ env["JAVA_HOME"] = Val(<<jdk17_home>>)
    /\ env["PATH"] = hostEnv["PATH"]

\* C6: with a backend that is neither maven nor gradle the run step returns
\* -1 and the message, leaves the filesystem as it was, copies no init
\* script, changes no permission bits and launches no child; execute then
\* returns (false, message).
C6_UnknownBackend ==
    [][ /\ (pc = "run" /\ Unknown(env_config)) =>
              /\ pc' = "decide"
              /\ exit_code' = <<-1>>
              /\ logs' = UnknownMessage(env_config)
              /\ fs' = fs
              /\ ~child'.launched
              /\ trace' = Append(trace, "env")
        /\ (pc' = "done" /\ Unknown(env_config')) =>
              result' = [returned |-> TRUE, success |-> FALSE,
                         logs |-> UnknownMessage(env_config')] ]_vars

C6_Witness ==
    /\ pc = "done"
    /\ env_config.build_tool = "ant"
    /\ result = [returned |-> TRUE, success |-> FALSE, logs |-> <<"Unknown build tool: ", "ant">>]
    /\ ~Has(trace, "launch")

\* C7: an exception raised in a step of execute ends in the handler, and
\* execute ends by returning a pair, which is (false, text of the exception)
\* when there was one.
C7_NothingEscapes ==
    /\ exc # NoExc => pc \in {"except", "done"}
    /\ pc = "done" => result.returned
    /\ (pc = "done" /\ exc # NoExc) =>
          result = [returned |-> TRUE, success |-> FALSE, logs |-> <<exc>>]

C7_Witness ==
    /\ pc = "done"
    /\ exc = "rmtree of classes failed"
    /\ result.returned

C7_WitnessRun ==
    /\ pc = "done"
    /\ exc = "copy of init.gradle failed"
    /\ result.returned

ExistingSources(f) == {t \in {f.targetClasses, f.buildJavaMain, f.buildMain} : t.exists}

\* C8: after an execute whose copy succeeded, <destination>/classes holds
\* exactly the files of a source tree of the workspace; no file that was
\* there before the call and is not in that tree is left.
C8_FullReplace ==
    (pc = "done" /\ Ended(trace, "copied")) =>
        /\ result.success
        /\ fs.dest.exists
        /\ \E src \in ExistingSources(fs) :
             /\ fs.dest.files = src.files
             /\ \A x \in destAtCall.files : x \notin src.files => x \notin fs.dest.files

C8_Witness ==
    /\ pc = "done"
    /\ Ended(trace, "copied")
    /\ GetBuildTool(env_config) = "maven"
    /\ fs.targetClasses = Dir({"A.class"})
    /\ destAtCall = Dir({"B.class"})
    /\ fs.dest = Dir({"A.class"})

\* C9: the source is target/classes if it exists, else build/classes/java/main
\* if it exists, else build/classes/main, whatever the backend; with none of
\* them extraction ends without an error and leaves the destination alone.
C9_SourcePriority ==
    /\ (pc = "done" /\ Ended(trace, "copied")) =>
          /\ fs.targetClasses.exists => fs.dest = Dir(fs.targetClasses.files)
          /\ (~fs.targetClasses.exists /\ fs.buildJavaMain.exists)
                => fs.dest = Dir(fs.buildJavaMain.files)
          /\ (~fs.targetClasses.exists /\ ~fs.buildJavaMain.exists)
                => (fs.buildMain.exists /\ fs.dest = Dir(fs.buildMain.files))
    /\ (pc \in {"done", "except"} /\ Has(trace, "extract") /\ ExistingSources(fs) = {}) =>
          /\ pc = "done"
          /\ exc = NoExc
          /\ result.success
          /\ fs.dest = destAtCall

C9_Witness ==
    /\ pc = "done"
    /\ Ended(trace, "copied")
    /\ GetBuildTool(env_config) = "gradle"
    /\ fs.targetClasses = Dir({"A.class"})
    /\ fs.buildJavaMain = Dir({"B.class"})
    /\ fs.dest = Dir({"A.class"})

C9_WitnessNone ==
    /\ pc = "done"
    /\ Ended(trace, "extract")
    /\ ExistingSources(fs) = {}
    /\ destAtCall.exists

TextIs17(v) == v \in {PyInt(17), PyStr(<<"1", "7">>)}

InheritedPath(host) == IF host["PATH"].set THEN host["PATH"].val ELSE << <<>> >>

\* C10: the child's environment has JAVA_HOME = the JDK-17 home exactly when
\* the text of the requested version is "17" and the JDK-8 home otherwise,
\* PATH = JAVA_HOME/bin, the tool's bin directory, then the inherited PATH,
\* every other variable as inherited; os.environ is never changed.
C10_ChildEnvironment ==
    [][ /\ hostEnv' = hostEnv
        /\ (pc' = "returned" /\ child'.launched) =>
             LET home == IF TextIs17(GetJdkVersion(env_config')) THEN jdk17_home ELSE jdk8_home
             IN /\ child'.env["JAVA_HOME"] = Val(<<home>>)
                /\ child'.env["PATH"] =
                     Val(<<Join(home, <<"bin">>), Dirname(bin_path')>> \o InheritedPath(hostEnv))
                /\ Basename(Dirname(bin_path')) = "bin"
                /\ \A x \in EnvVars \ {"JAVA_HOME", "PATH"} : child'.env[x] = hostEnv[x] ]_vars

C10_Witness ==
    /\ pc = "returned"
    /\ child.launched
    /\ env_config.jdk_version = PyStr(<<"1", "7">>)
    /\ child.env["JAVA_HOME"] = Val(<<jdk17_home>>)
    /\ hostEnv = HostEnv2

C10_WitnessOther ==
    /\ pc = "returned"
    /\ child.launched
    /\ env_config.jdk_version = PyStr(<<"1", "7", ".", "0">>)
    /\ child.env["JAVA_HOME"] = Val(<<jdk8_home>>)
    /\ hostEnv = HostEnv1

====
